---- MODULE Spec2Model ----
(***************************************************************************)
(* Remote version discovery and asset resolution of ciel                   *)
(* (src/ciel/source.py): GitHubReleasesDataSource.get_available_versions,  *)
(* GitHubReleasesDataSource.get_downloads_for_version and the start-up     *)
(* selection of DataSource.default.                                        *)
(*                                                                         *)
(* Strings are sequences: tags, family names and asset names are sequences *)
(* of one-character strings; release bodies and configuration values are   *)
(* sequences of tokens (a token is a run of characters the code never      *)
(* looks inside).                                                          *)
(***************************************************************************)
EXTENDS Integers, Sequences, FiniteSets, TLC

VARIABLES
    op,         \* which entry point this run exercises
    pc,         \* position inside the entry point
    repo,       \* self.repo.id of the data source instance
    feed,       \* the releases the server holds, in feed order
    pdk,        \* argument of get_available_versions
    page,       \* local variable page
    last,       \* local variable last
    releases,   \* local variable releases
    reqs,       \* the requests issued so far, in order, each with its outcome
    result,     \* how the entry point ended
    version,    \* argument of get_downloads_for_version
    source_id,  \* value of the environment variable CIEL_DATA_SOURCE
    default     \* DataSource.default

vars == <<op, pc, repo, feed, pdk, page, last, releases, reqs, result,
          version, source_id, default>>

----------------------------------------------------------------------------
(* Bounds of the model *)

MaxFeedLen == 3

MaxRequests == 3

MaxAssets == 3

MaxConfigLen == 4

----------------------------------------------------------------------------
(* Program constants *)

PER_PAGE == 100

ARCHIVE_SUFFIX == <<".", "t", "a", "r", ".", "z", "s", "t">>

\* Python's None, and a value that is present
None == <<>>

Some(x) == <<x>>

\* no exception
NoExc == "none"

DEFAULT_SOURCE_ID == <<"github-releases", ":", "efabless/volare">>

Factory == {"github-releases"}

----------------------------------------------------------------------------
(* String helpers *)

Min(a, b) == IF a < b THEN a ELSE b

Positions(s, c) == {i \in 1..Len(s) : s[i] = c}

SetMax(S) == CHOOSE x \in S : \A y \in S : y <= x

SetMin(S) == CHOOSE x \in S : \A y \in S : x <= y

\* a split at the first separator where the code splits at the last
RSplit1AtFirst(s, sep) ==
    IF Positions(s, sep) = {}
    THEN <<s>>
    ELSE LET i == SetMin(Positions(s, sep))
         IN  <<SubSeq(s, 1, i - 1), SubSeq(s, i + 1, Len(s))>>

\* str.rsplit(sep, maxsplit=1): the list of parts, one part when sep is absent
RSplit1(s, sep) ==
    IF Positions(s, sep) = {}
    THEN <<s>>
    ELSE LET i == SetMax(Positions(s, sep))
         IN  <<SubSeq(s, 1, i - 1), SubSeq(s, i + 1, Len(s))>>

\* str.split(sep, maxsplit=1)
Split1(s, sep) ==
    IF Positions(s, sep) = {}
    THEN <<s>>
    ELSE LET i == SetMin(Positions(s, sep))
         IN  <<SubSeq(s, 1, i - 1), SubSeq(s, i + 1, Len(s))>>

\* str.endswith(suffix)
EndsWith(s, suffix) ==
    /\ Len(s) >= Len(suffix)
    /\ SubSeq(s, Len(s) - Len(suffix) + 1, Len(s)) = suffix

\* s[:-8]
StripLast8(s) == SubSeq(s, 1, Len(s) - 8)

----------------------------------------------------------------------------
(* Outcomes of an entry point *)

TransportErrors == {"HTTPStatusError", "NetworkError"}

Pending == [kind |-> "pending", exc |-> NoExc, msg |-> <<>>, value |-> <<>>]

Return(v) == [kind |-> "return", exc |-> NoExc, msg |-> <<>>, value |-> v]

Raise(e, m) == [kind |-> "raise", exc |-> e, msg |-> m, value |-> <<>>]

Exit(status, m) == [kind |-> "exit", exc |-> NoExc, msg |-> m, value |-> status]

\* f"No versions found for '{pdk}' on github.com/{self.repo.id}"
NotFoundMsg(p, r) == <<"No versions found for '", p, "' on github.com/", r>>

\* the message of the ValueError a failed tuple unpacking raises
UnpackMsg == <<"not enough values to unpack (expected 2, got 1)">>

\* the message of the ValueError the timestamp parser raises
BadDateMsg(s) == <<"time data does not match format", s>>

----------------------------------------------------------------------------
(* Collaborators: timestamp parsing, Version order, the session's API *)

Timestamps ==
    {"2021-01-01T00:00:00Z", "2022-03-10T00:00:00Z", "2022-05-01T12:00:00Z",
     "2023-06-15T00:00:00Z"}

\* whether date_from_iso8601 accepts the string
IsIso8601(s) == Len(s) = 1 /\ s[1] \in Timestamps

\* date_from_iso8601 of an accepted string, as the number YYYYMMDDhh
date_from_iso8601(s) ==
    CASE s[1] = "2021-01-01T00:00:00Z" -> 2021010100
      [] s[1] = "2022-03-10T00:00:00Z" -> 2022031000
      [] s[1] = "2022-05-01T12:00:00Z" -> 2022050112
      [] s[1] = "2023-06-15T00:00:00Z" -> 2023061500

\* Version.__lt__: versions compare by upload_date
VersionLT(a, b) == a.upload_date < b.upload_date

\* RepoInfo.from_id(repo_id).id
RepoInfo_from_id(repo_id) == repo_id

\* one call of session.api: what was asked, and "ok" or the error raised
Request(params, outcome) == [params |-> params, outcome |-> outcome]

\* the slice of the feed the releases endpoint serves for ?page=p&per_page=n
ServePage(f, p, n) == SubSeq(f, (p - 1) * n + 1, Min(p * n, Len(f)))

\* the releases the server holds under a tag
ReleasesTagged(f, t) == SelectSeq(f, LAMBDA r : r.tag_name = t)

----------------------------------------------------------------------------
(* get_available_versions: lines 74-106 *)

\* tokens made only of characters of the class [\d\-\:TZ]
StampChars == Timestamps \cup {"2022-"}

\* commit_rx.search(body): None, or group 1 of the leftmost match
CommitRxSearch(body) ==
    LET starts == {i \in 1..(Len(body) - 1) :
                      body[i] = "released on " /\ body[i + 1] \in StampChars}
    IN  IF starts = {}
        THEN None
        ELSE LET i == SetMin(starts)
                 j == SetMax({k \in (i + 1)..Len(body) :
                                 \A m \in (i + 1)..k : body[m] \in StampChars})
             IN  Some(SubSeq(body, i + 1, j))

\* Version(name=hash, pdk=family, commit_date=..., upload_date=..., prerelease=...)
Version(name, family, commit_date, upload_date, prerelease) ==
    [name |-> name, pdk |-> family, commit_date |-> commit_date,
     upload_date |-> upload_date, prerelease |-> prerelease]

\* one iteration of the for loop of lines 76-99: the release is skipped
\* ("continue"), raises, or appends a Version
LoopBody(release, p) ==
    LET parts == RSplit1(release.tag_name, "-")
        m == CommitRxSearch(release.body)
    IN  IF release.draft
        THEN [does |-> "continue"]
        ELSE IF Len(parts) # 2
        THEN [does |-> "raise", exc |-> "ValueError", msg |-> UnpackMsg]
        ELSE IF p # parts[1]
        THEN [does |-> "continue"]
        ELSE IF ~IsIso8601(release.published_at)
        THEN [does |-> "raise", exc |-> "ValueError",
              msg |-> BadDateMsg(release.published_at)]
        ELSE IF m # None /\ ~IsIso8601(m[1])
        THEN [does |-> "raise", exc |-> "ValueError", msg |-> BadDateMsg(m[1])]
        ELSE [does |-> "append",
              version |-> Version(parts[2], parts[1],
                              IF m = None THEN None
                                          ELSE Some(date_from_iso8601(m[1])),
                              date_from_iso8601(release.published_at),
                              release.prerelease)]

\* the for loop of lines 76-99: the first release that raises ends it,
\* otherwise versions holds the appended Versions in feed order
BuildVersions(rels, p) ==
    LET raising == {i \in 1..Len(rels) : LoopBody(rels[i], p).does = "raise"}
        kept == SelectSeq(rels, LAMBDA r : LoopBody(r, p).does = "append")
    IN  IF raising # {}
        THEN LET first == LoopBody(rels[SetMin(raising)], p)
             IN  [exc |-> first.exc, msg |-> first.msg, versions |-> <<>>]
        ELSE [exc |-> NoExc, msg |-> <<>>,
              versions |-> [i \in 1..Len(kept) |-> LoopBody(kept[i], p).version]]

\* a sort without reverse=True: least first
SortVersionsAscending(vs) ==
    LET n == Len(vs)
        Before(j, i) == \/ VersionLT(vs[j], vs[i])
                        \/ ~VersionLT(vs[i], vs[j]) /\ j < i
        place == [i \in 1..n |-> Cardinality({j \in 1..n : Before(j, i)}) + 1]
    IN  [k \in 1..n |-> vs[CHOOSE i \in 1..n : place[i] = k]]

\* versions.sort(reverse=True): a stable sort, greatest first. The place of
\* element i is one more than the number of elements that go before it.
SortVersions(vs) ==
    LET n == Len(vs)
        Before(j, i) == \/ VersionLT(vs[i], vs[j])
                        \/ ~VersionLT(vs[j], vs[i]) /\ j < i
        place == [i \in 1..n |-> Cardinality({j \in 1..n : Before(j, i)}) + 1]
    IN  [k \in 1..n |-> vs[CHOOSE i \in 1..n : place[i] = k]]

\* lines 74-106: build, sort, raise on empty, return
FinishVersions(rels, p, r) ==
    LET built == BuildVersions(rels, p)
    IN  IF built.exc # NoExc
        THEN Raise(built.exc, built.msg)
        ELSE LET versions == SortVersions(built.versions)
             IN  IF Len(versions) = 0
                 THEN Raise("ValueError", NotFoundMsg(p, r))
                 ELSE Return(versions)

----------------------------------------------------------------------------
(* get_downloads_for_version: lines 108-125 *)

\* f"/releases/tags/{version.pdk}-{version.name}"
TagPath(v) == [path |-> "/releases/tags/", tag |-> v.pdk \o <<"-">> \o v.name]

Asset(content, filename, url) ==
    [content |-> content, filename |-> filename, url |-> url]

\* a test for the compression suffix alone
IsArchiveByZst(asset) == EndsWith(asset.name, <<".", "z", "s", "t">>)

\* whether the loop of lines 119-124 keeps the asset
IsArchive(asset) == EndsWith(asset.name, ARCHIVE_SUFFIX)

RECURSIVE ZstFiles(_)
ZstFiles(assets) ==
    IF assets = <<>>
    THEN <<>>
    ELSE LET asset == Head(assets)
         IN  (IF IsArchive(asset)
              THEN <<Asset(StripLast8(asset.name), asset.name,
                           asset.browser_download_url)>>
              ELSE <<>>) \o ZstFiles(Tail(assets))

----------------------------------------------------------------------------
(* Inputs: the server's releases, the arguments, the environment *)

PlainBody == <<"Release notes.">>

DatedBody == <<"Built and ", "released on ", "2022-05-01T12:00:00Z", " by CI">>

TruncatedDateBody == <<"released on ", "2022-">>

NoDateBody == <<"To be ", "released on ", "a later day">>

GluedDateBody == <<"released on ", "2022-05-01T12:00:00Z", "2022-">>

Release(draft, tag_name, published_at, body, prerelease) ==
    [draft |-> draft, tag_name |-> tag_name, published_at |-> <<published_at>>,
     body |-> body, prerelease |-> prerelease, assets |-> <<>>]

ReleaseKinds ==
    {Release(d, <<"s", "-", "1">>, "2021-01-01T00:00:00Z", PlainBody, FALSE) : d \in BOOLEAN}
    \cup {Release(FALSE, <<"s", "-", "2">>, "2023-06-15T00:00:00Z", PlainBody, TRUE)}
    \cup {Release(FALSE, <<"s", "-", "3">>, "2022-03-10T00:00:00Z", DatedBody, FALSE)}
    \cup {Release(d, <<"s", "-", "x", "-", "9">>, "2021-01-01T00:00:00Z", PlainBody, FALSE) : d \in BOOLEAN}
    \cup {Release(FALSE, <<"t", "-", "2">>, "2022-03-10T00:00:00Z", b, FALSE) :
              b \in {PlainBody, TruncatedDateBody}}
    \cup {Release(d, <<"s", "1">>, "2022-03-10T00:00:00Z", PlainBody, FALSE) : d \in BOOLEAN}
    \cup {Release(d, <<"s", "-", "4">>, "2022-03-10T00:00:00Z", b, FALSE) :
              d \in BOOLEAN, b \in {TruncatedDateBody}}
    \cup {Release(FALSE, <<"s", "-", "5">>, "2022-03-10T00:00:00Z", NoDateBody, FALSE)}
    \cup {Release(FALSE, <<"s", "-", "6">>, "2023-06-15T00:00:00Z", GluedDateBody, FALSE)}

\* tags are unique within a repository
UniqueTags(f) ==
    \A i, j \in 1..Len(f) : f[i].tag_name = f[j].tag_name => i = j

ShortFeeds ==
    {f \in UNION {[1..n -> ReleaseKinds] : n \in 0..MaxFeedLen} : UniqueTags(f)}

\* the i-th release of a long feed
Filler(i, draft) ==
    Release(draft, <<"s", "-", ToString(i)>>, "2021-01-01T00:00:00Z", PlainBody, FALSE)

LongLens == {PER_PAGE - 1, PER_PAGE, PER_PAGE + 1, 2 * PER_PAGE}

\* long feeds, without drafts or with a first page of drafts only
LongFeeds ==
    {[i \in 1..n |-> Filler(i, i <= k)] : n \in LongLens, k \in {0, PER_PAGE}}

Feeds == ShortFeeds \cup LongFeeds

Pdks == {<<"s">>, <<"s", "-", "x">>, <<"t">>}

Repos == {<<"efabless/volare">>, <<"fossi-foundation/ciel-releases">>}

AssetNames ==
    {<<"a", ".", "t", "a", "r", ".", "z", "s", "t">>,
     <<"a", ".", "t", "a", "r", ".", "z", "s", "t", ".", "s", "h", "a", "2", "5", "6">>,
     <<"r", "e", "a", "d", "m", "e", ".", "m", "d">>,
     <<".", "t", "a", "r", ".", "z", "s", "t">>,
     <<"t", "a", "r", ".", "z", "s", "t">>,
     <<"b", ".", "z", "s", "t">>}

UniqueNames(a) == \A i, j \in 1..Len(a) : a[i] = a[j] => i = j

AssetLists ==
    {a \in UNION {[1..n -> AssetNames] : n \in 0..MaxAssets} : UniqueNames(a)}

\* the release the server holds for the downloads, with its attached files
ReleaseWithAssets(tag_name, names) ==
    [Release(FALSE, tag_name, "2021-01-01T00:00:00Z", PlainBody, FALSE)
        EXCEPT !.assets = [i \in 1..Len(names) |->
                              [name |-> names[i],
                               browser_download_url |-> <<"https://dl/", i>>]]]

VersionArgs ==
    {Version(n, p, None, None, FALSE) : n \in {<<"1">>, <<"9">>},
                                        p \in {<<"s">>, <<"s", "-", "x">>}}

ConfigTokens == {"github-releases", "bogus", ":", "efabless/volare"}

ConfigValues ==
    {None} \cup
    {Some(c) : c \in UNION {[1..n -> ConfigTokens] : n \in 0..MaxConfigLen}}

----------------------------------------------------------------------------
(* Initial states: one entry point per run *)

InitVersions ==
    /\ op = "get_available_versions"
    /\ pc = "start"
    /\ repo \in Repos
    /\ feed \in Feeds
    /\ pdk \in Pdks
    /\ version = None
    /\ source_id = None
    /\ default = None

InitDownloads ==
    /\ op = "get_downloads_for_version"
    /\ pc = "start"
    /\ repo = <<"efabless/volare">>
    /\ \E t \in {<<"s", "-", "1">>, <<"s", "-", "x", "-", "9">>}, a \in AssetLists :
           feed = <<ReleaseWithAssets(t, a)>>
    /\ pdk = None
    /\ version \in VersionArgs
    /\ source_id = None
    /\ default = None

InitStartup ==
    /\ op = "import"
    /\ pc = "start"
    /\ repo = None
    /\ feed = <<>>
    /\ pdk = None
    /\ version = None
    /\ source_id \in ConfigValues
    /\ default = None

Init ==
    /\ page = 0
    /\ last = <<>>
    /\ releases = <<>>
    /\ reqs = <<>>
    /\ result = Pending
    /\ \/ InitVersions
       \/ InitDownloads
       \/ InitStartup

----------------------------------------------------------------------------
(* get_available_versions: lines 55-106 *)

\* params={"page": ..., "per_page": 100} of the request made with local page p
PageParams(p) == [path |-> "/releases", page |-> 1, per_page |-> PER_PAGE]

\* while len(last) == 100
MorePages(l) == Len(l) = PER_PAGE

\* lines 56-63: the first request succeeds
FirstPage ==
    /\ op = "get_available_versions" /\ pc = "start"
    /\ page' = 1
    /\ reqs' = Append(reqs, Request(PageParams(1), "ok"))
    /\ last' = ServePage(feed, PageParams(1).page, PageParams(1).per_page)
    /\ releases' = last'
    /\ pc' = "paging"
    /\ UNCHANGED <<op, repo, feed, pdk, result, version, source_id, default>>

\* lines 64-72: one iteration of the while loop, the request succeeds
NextPage ==
    /\ op = "get_available_versions" /\ pc = "paging"
    /\ MorePages(last)
    /\ Len(reqs) < MaxRequests
    /\ page' = page + 1
    /\ reqs' = Append(reqs, Request(PageParams(page'), "ok"))
    /\ last' = ServePage(feed, PageParams(page').page, PageParams(page').per_page)
    /\ releases' = releases \o last'
    /\ UNCHANGED <<op, pc, repo, feed, pdk, result, version, source_id, default>>

\* a loop that swallows the exception and goes on to ask again
PageRequestFailsRetrying ==
    /\ op = "get_available_versions"
    /\ \/ pc = "start" /\ page' = 1
       \/ pc = "paging" /\ MorePages(last) /\ Len(reqs) < MaxRequests
                        /\ page' = page + 1
    /\ \E e \in TransportErrors :
           reqs' = Append(reqs, Request(PageParams(page'), e))
    /\ pc' = "paging"
    /\ UNCHANGED <<op, repo, feed, pdk, last, releases, result, version,
                   source_id, default>>

\* lines 57 and 66: session.api raises, the exception leaves the method
PageRequestFails ==
    /\ op = "get_available_versions"
    /\ \/ pc = "start" /\ page' = 1
       \/ pc = "paging" /\ MorePages(last) /\ Len(reqs) < MaxRequests
                        /\ page' = page + 1
    /\ \E e \in TransportErrors :
           /\ reqs' = Append(reqs, Request(PageParams(page'), e))
           /\ result' = Raise(e, <<>>)
    /\ pc' = "done"
    /\ UNCHANGED <<op, repo, feed, pdk, last, releases, version, source_id, default>>

\* lines 64 and 74-106: the loop ends, the releases are filtered and sorted
BuildResult ==
    /\ op = "get_available_versions" /\ pc = "paging"
    /\ ~MorePages(last)
    /\ result' = FinishVersions(releases, pdk, repo)
    /\ pc' = "done"
    /\ UNCHANGED <<op, repo, feed, pdk, page, last, releases, reqs, version,
                   source_id, default>>

----------------------------------------------------------------------------
(* get_downloads_for_version: lines 108-125 *)

\* lines 111-125 when the lookup succeeds
GetDownloads ==
    /\ op = "get_downloads_for_version" /\ pc = "start"
    /\ reqs' = Append(reqs, Request(TagPath(version), "ok"))
    /\ ReleasesTagged(feed, TagPath(version).tag) # <<>>
    /\ LET release == ReleasesTagged(feed, TagPath(version).tag)[1]
       IN  result' = Return(ZstFiles(release.assets))
    /\ pc' = "done"
    /\ UNCHANGED <<op, repo, feed, pdk, page, last, releases, version,
                   source_id, default>>

\* line 111: session.api raises (the server has no such tag, or any other
\* status or connectivity failure), the exception leaves the method
GetDownloadsFails ==
    /\ op = "get_downloads_for_version" /\ pc = "start"
    /\ \E e \in TransportErrors :
           /\ ReleasesTagged(feed, TagPath(version).tag) = <<>>
                  => e = "HTTPStatusError"
           /\ reqs' = Append(reqs, Request(TagPath(version), e))
           /\ result' = Raise(e, <<>>)
    /\ pc' = "done"
    /\ UNCHANGED <<op, repo, feed, pdk, page, last, releases, version,
                   source_id, default>>

----------------------------------------------------------------------------
(* __set_data_source_default: lines 131-149 *)

\* os.getenv("CIEL_DATA_SOURCE", "github-releases:efabless/volare")
GetEnv(value) == IF value = None THEN DEFAULT_SOURCE_ID ELSE value[1]

\* a split at the last separator where the code splits at the first
ElementsAtLast(value) == RSplit1(GetEnv(value), ":")

\* source_id.split(":", maxsplit=1)
Elements(value) == Split1(GetEnv(value), ":")

\* GitHubReleasesDataSource(target)
GitHubReleasesDataSource(cls_id, target) ==
    [cls |-> cls_id, repo |-> RepoInfo_from_id(target)]

\* the whole function: exit with -1, or set DataSource.default
SetDataSourceDefault ==
    /\ op = "import" /\ pc = "start"
    /\ LET elements == Elements(source_id)
       IN  IF Len(elements) # 2
           THEN /\ result' = Exit(-1, <<"must be in the format">>)
                /\ default' = default
           ELSE IF elements[1] \notin {<<c>> : c \in Factory}
           THEN /\ result' = Exit(-1, <<"unknown data source class", elements[1]>>)
                /\ default' = default
           ELSE /\ result' = Return(<<>>)
                /\ default' = Some(GitHubReleasesDataSource(elements[1][1],
                                                            elements[2]))
    /\ pc' = "done"
    /\ UNCHANGED <<op, repo, feed, pdk, page, last, releases, reqs, version,
                   source_id>>

----------------------------------------------------------------------------

Next ==
    \/ FirstPage
    \/ NextPage
    \/ PageRequestFails
    \/ BuildResult
    \/ GetDownloads
    \/ GetDownloadsFails
    \/ SetDataSourceDefault

Spec == Init /\ [][Next]_vars

----------------------------------------------------------------------------
(* What the properties below speak of, stated without the code's operators *)

Versions == op = "get_available_versions"

Downloads == op = "get_downloads_for_version"

Startup == op = "import"

Returned == result.kind = "return"

Raised == result.kind = "raise"

\* the method ended and no request of it failed
EndedWithoutTransportError ==
    pc = "done" /\ \A i \in 1..Len(reqs) : reqs[i].outcome = "ok"

CeilDiv(n, d) == (n + d - 1) \div d

\* i is the place of the last '-' of tag t
IsLastDash(t, i) ==
    /\ i \in 1..Len(t)
    /\ t[i] = "-"
    /\ \A j \in (i + 1)..Len(t) : t[j] # "-"

HasDash(t) == \E i \in 1..Len(t) : t[i] = "-"

\* release r is installable for family p
Matches(r, p) ==
    /\ ~r.draft
    /\ \E i \in 1..Len(r.tag_name) :
           IsLastDash(r.tag_name, i) /\ SubSeq(r.tag_name, 1, i - 1) = p

\* the (pdk, name) pairs of the releases of f installable for family p
MatchingPairs(f, p) ==
    UNION {{<<p, SubSeq(f[k].tag_name, i + 1, Len(f[k].tag_name))>> :
               i \in {i \in 1..Len(f[k].tag_name) :
                         /\ ~f[k].draft
                         /\ IsLastDash(f[k].tag_name, i)
                         /\ SubSeq(f[k].tag_name, 1, i - 1) = p}} :
           k \in 1..Len(f)}

\* the body of a release carries a "released on" phrase that the
\* timestamp parser is handed and rejects
HasBrokenAnnotation(r) ==
    r.body \in {TruncatedDateBody, GluedDateBody}

----------------------------------------------------------------------------
(* C1: for a feed of N releases whose last page is short (N not a multiple *)
(* of 100), get_available_versions never issues more than ceil(N/100)      *)
(* page requests, and has issued exactly that many when it ends.           *)
C1_PageRequestCount ==
    (Versions /\ Len(feed) % PER_PAGE # 0 /\ \A i \in 1..Len(reqs) : reqs[i].outcome = "ok")
        => /\ Len(reqs) <= CeilDiv(Len(feed), PER_PAGE)
           /\ pc = "done" => Len(reqs) = CeilDiv(Len(feed), PER_PAGE)

(* C2: the i-th page request asks for page i, the aggregated list never    *)
(* holds a release twice, and when paging ends it is the whole feed.       *)
C2_ConsecutivePages ==
    Versions
        => /\ \A i \in 1..Len(reqs) : reqs[i].params.page = i
           /\ \A i, j \in 1..Len(releases) : releases[i] = releases[j] => i = j
           /\ EndedWithoutTransportError => releases = feed

(* C3: the returned list holds exactly one Version per release that is not *)
(* a draft and whose tag, split at its last '-', has the requested family; *)
(* the Version's name is the part after that '-'.                          *)
C3_FamilyFilter ==
    (Versions /\ Returned)
        => /\ {<<v.pdk, v.name>> : v \in {result.value[k] : k \in 1..Len(result.value)}}
                  = MatchingPairs(feed, pdk)
           /\ Len(result.value) = Cardinality(MatchingPairs(feed, pdk))

\* the list was returned for family "s-x" from a feed of three releases that
\* holds the tag "s-x-9", published, and a draft
C3_Witness ==
    /\ Versions /\ Returned
    /\ pdk = <<"s", "-", "x">>
    /\ Len(feed) = 3
    /\ \E k \in 1..3 : feed[k].draft
    /\ \E k \in 1..3 : ~feed[k].draft /\ feed[k].tag_name = <<"s", "-", "x", "-", "9">>
    /\ Len(result.value) = 1 /\ result.value[1].name = <<"9">>

(* C4: get_available_versions, when no request fails and no release        *)
(* carries a broken commit-date annotation, ends with the not-found error  *)
(* naming family and repository if no published release matches the       *)
(* family, and with a non-empty list otherwise.                            *)
C4_NotFoundOrNonEmpty ==
    (Versions /\ EndedWithoutTransportError
              /\ \A k \in 1..Len(feed) : ~HasBrokenAnnotation(feed[k]))
        => IF \E k \in 1..Len(feed) : Matches(feed[k], pdk)
           THEN Returned /\ result.value # <<>>
           ELSE /\ Raised
                /\ result.exc = "ValueError"
                /\ result.msg = NotFoundMsg(pdk, repo)

(* C5: a release whose tag has no '-' is skipped: the method ends as it    *)
(* would for the feed without these releases, and not with the error of a  *)
(* failed split.                                                           *)
C5_MalformedTagSkipped ==
    (Versions /\ EndedWithoutTransportError)
        => /\ result.msg # UnpackMsg
           /\ result = FinishVersions(
                           SelectSeq(feed, LAMBDA r : HasDash(r.tag_name)),
                           pdk, repo)

(* C6, as claimed: the configuration value is accepted only when it has    *)
(* exactly one ':' and a registered backend identifier before it; any      *)
(* other value ends the process with a non-zero status and leaves          *)
(* DataSource.default unset.                                               *)
C6_ExactlyOneSeparator ==
    (Startup /\ pc = "done")
        => LET v == IF source_id = None THEN DEFAULT_SOURCE_ID ELSE source_id[1]
               seps == {i \in 1..Len(v) : v[i] = ":"}
           IN  IF /\ Cardinality(seps) = 1
                  /\ \E i \in seps : SubSeq(v, 1, i - 1) = <<"github-releases">>
               THEN \E i \in seps :
                       default = Some([cls |-> "github-releases",
                                       repo |-> SubSeq(v, i + 1, Len(v))])
               ELSE /\ default = None
                    /\ result.kind = "exit" /\ result.value # 0

(* C6, amended: the configuration value is accepted when it has at least   *)
(* one ':' and a registered backend identifier before the first one; the   *)
(* backend is bound to everything after the first ':'. A value with no     *)
(* ':' or with an unknown identifier before the first ':' ends the process *)
(* with a non-zero status and leaves DataSource.default unset.             *)
C6_FirstSeparator ==
    (Startup /\ pc = "done")
        => LET v == IF source_id = None THEN DEFAULT_SOURCE_ID ELSE source_id[1]
               seps == {i \in 1..Len(v) : v[i] = ":"}
               first == {i \in seps : \A j \in seps : i <= j}
           IN  IF \E i \in first : SubSeq(v, 1, i - 1) = <<"github-releases">>
               THEN /\ result.kind = "return"
                    /\ \E i \in first :
                          default = Some([cls |-> "github-releases",
                                          repo |-> SubSeq(v, i + 1, Len(v))])
               ELSE /\ default = None
                    /\ result.kind = "exit" /\ result.value # 0

\* a value with two separators was accepted, the second one part of the
\* backend's argument
C6_Witness ==
    /\ Startup /\ pc = "done"
    /\ source_id = Some(<<"github-releases", ":", "efabless/volare", ":">>)
    /\ default = Some([cls |-> "github-releases",
                       repo |-> <<"efabless/volare", ":">>])

(* C7: the returned list is ordered newest first: no element's upload_date *)
(* is older than that of the element after it.                             *)
C7_NewestFirst ==
    (Versions /\ Returned)
        => \A k \in 1..(Len(result.value) - 1) :
               result.value[k].upload_date >= result.value[k + 1].upload_date

\* releases published 2021-01-01, 2023-06-15, 2022-03-10, in this order in
\* the feed, come back as 2023-06-15, 2022-03-10, 2021-01-01
C7_Witness ==
    /\ Versions /\ Returned
    /\ Len(feed) = 3
    /\ feed[1].published_at = <<"2021-01-01T00:00:00Z">>
    /\ feed[2].published_at = <<"2023-06-15T00:00:00Z">>
    /\ feed[3].published_at = <<"2022-03-10T00:00:00Z">>
    /\ Len(result.value) = 3
    /\ result.value[1].upload_date = 2023061500
    /\ result.value[2].upload_date = 2022031000
    /\ result.value[3].upload_date = 2021010100

(* C8: get_downloads_for_version issues one lookup, for the tag            *)
(* "<pdk>-<name>", and returns in feed order one Asset per attached file   *)
(* whose name ends in ".tar.zst" and none for any other file, with         *)
(* filename the file's name and content + ".tar.zst" = filename.           *)
C8_ArchiveAssets ==
    (Downloads /\ pc = "done")
        => /\ Len(reqs) = 1
           /\ reqs[1].params.tag = version.pdk \o <<"-">> \o version.name
           /\ reqs[1].outcome = "ok" => Returned
           /\ Returned =>
                LET attached == feed[1].assets
                    archives == SelectSeq(attached, LAMBDA a :
                                    \E n \in 0..Len(a.name) :
                                        a.name = SubSeq(a.name, 1, n) \o ARCHIVE_SUFFIX)
                IN  /\ feed[1].tag_name = version.pdk \o <<"-">> \o version.name
                    /\ Len(result.value) = Len(archives)
                    /\ \A i \in 1..Len(archives) :
                          /\ result.value[i].filename = archives[i].name
                          /\ result.value[i].url = archives[i].browser_download_url
                          /\ result.value[i].content \o ARCHIVE_SUFFIX
                                 = result.value[i].filename

\* the files a.tar.zst, a.tar.zst.sha256 and readme.md yield the one Asset
\* with content "a" and filename "a.tar.zst"
C8_Witness ==
    /\ Downloads /\ Returned
    /\ Len(feed[1].assets) = 3
    /\ feed[1].assets[1].name = <<"a", ".", "t", "a", "r", ".", "z", "s", "t">>
    /\ feed[1].assets[2].name =
           <<"a", ".", "t", "a", "r", ".", "z", "s", "t", ".", "s", "h", "a", "2", "5", "6">>
    /\ feed[1].assets[3].name = <<"r", "e", "a", "d", "m", "e", ".", "m", "d">>
    /\ Len(result.value) = 1
    /\ result.value[1].content = <<"a">>
    /\ result.value[1].filename = <<"a", ".", "t", "a", "r", ".", "z", "s", "t">>

(* C9: a commit-date annotation never makes get_available_versions fail:   *)
(* the method does not end with the timestamp parser's error, and every    *)
(* returned Version has commit_date unset unless its release's body        *)
(* carries the phrase with a valid timestamp.                              *)
C9_CommitDateLenient ==
    (Versions /\ EndedWithoutTransportError)
        => /\ Raised => result.msg \notin {BadDateMsg(<<"2022-">>),
                            BadDateMsg(<<"2022-05-01T12:00:00Z", "2022-">>)}
           /\ Returned =>
                \A k \in 1..Len(result.value) :
                    \E r \in {feed[i] : i \in 1..Len(feed)} :
                        /\ Matches(r, pdk)
                        /\ result.value[k].name = RSplit1(r.tag_name, "-")[2]
                        /\ result.value[k].commit_date =
                               IF r.body = DatedBody THEN <<2022050112>> ELSE None

(* C10: when a request of get_available_versions or                        *)
(* get_downloads_for_version fails, it is the last request, the method has *)
(* ended raising that same error and returns nothing; the not-found error  *)
(* is raised only when every request succeeded, the whole feed was         *)
(* fetched and no published release matches the family.                    *)
C10_TransportFailurePropagates ==
    (Versions \/ Downloads)
        => /\ \A i \in 1..Len(reqs) :
                  reqs[i].outcome # "ok"
                      => /\ i = Len(reqs)
                         /\ pc = "done"
                         /\ result = Raise(reqs[i].outcome, <<>>)
                         /\ result.exc \in TransportErrors
           /\ (Versions /\ Raised /\ result.exc = "ValueError"
                        /\ result.msg = NotFoundMsg(pdk, repo))
                  => /\ \A i \in 1..Len(reqs) : reqs[i].outcome = "ok"
                     /\ releases = feed
                     /\ \A k \in 1..Len(feed) : ~Matches(feed[k], pdk)

\* the second page request failed with a connectivity error and the method
\* ended with it
C10_Witness ==
    /\ Versions /\ pc = "done"
    /\ Len(reqs) = 2
    /\ reqs[1].outcome = "ok"
    /\ reqs[2].outcome = "NetworkError"
    /\ result.exc = "NetworkError"

====
